---- MODULE Spec2Model ----
(***************************************************************************)
(* Model of src/main.py: the module-level handles set by                   *)
(* initialize_langchain, the POST /upload handler (upload_documents with   *)
(* process_file under asyncio.wait_for) and the POST /query handler.       *)
(*                                                                         *)
(* The model follows one POST /upload request from arrival to response.    *)
(* Earlier requests are represented by the chunks already persisted in the *)
(* Chroma collection (Init).  The startup initialisation and any number of *)
(* POST /query requests interleave with the steps of the upload.           *)
(*                                                                         *)
(* Strings built with f-strings are modelled as sequences of their parts.  *)
(***************************************************************************)
EXTENDS Integers, Sequences, FiniteSets, TLC

VARIABLES
    embeddings,     \* module global, line 38
    vector_store,   \* module global, line 39
    qa_chain,       \* module global, line 40
    startup,        \* how startup_event / initialize_langchain ended
    collection,     \* chunks held by the persisted Chroma collection
    pc,             \* position of the upload handler
    files,          \* upload_documents: parameter files
    idx,            \* upload_documents: number of files the loop has completed
    documents,      \* upload_documents: local documents
    splits,         \* upload_documents: local splits
    response,       \* HTTP response of the upload request
    fstate,         \* per file: how its process_file call stands
    pf_result,      \* outcome of the current wait_for(process_file(file))
    tmpdir,         \* temporary files existing on disk (named by file index)
    splitCalls,     \* calls of text_splitter.split_documents in this request
    addCalls,       \* calls of vector_store.add_documents in this request
    submitted,      \* argument of the add_documents call of this request
    before,         \* the collection as it was when the request arrived
    q_response,     \* HTTP response of the latest query request
    q_chain,        \* value of qa_chain the latest query read at line 170
    qa_input        \* argument the latest query passed to qa_chain

vars == <<embeddings, vector_store, qa_chain, startup, collection, pc, files,
          idx, documents, splits, response, fstate, pf_result, tmpdir,
          splitCalls, addCalls, submitted, before, q_response, q_chain,
          qa_input>>

globals == <<embeddings, vector_store, qa_chain>>
uploadVars == <<pc, files, idx, documents, splits, response, fstate,
                pf_result, tmpdir, splitCalls, addCalls, submitted, before>>
queryVars == <<q_response, q_chain, qa_input>>

\* Longest batch of files of the upload request.
MaxFiles == 2

\* search_kwargs={"k": 4}
K == 4

None == "None"

(***************************************************************************)
(* Inputs.  An uploaded file: its name, the extension os.path.splitext     *)
(* finds in the name (one character per element), the text of its pages    *)
(* (each page a sequence of pieces, a piece being a stretch of text the    *)
(* splitter emits as one chunk), and whether the format loader can parse   *)
(* it.                                                                     *)
(***************************************************************************)
Uploads ==
    { [filename |-> "a.PDF", ext |-> <<".", "P", "D", "F">>,
       pages |-> << <<"a1x", "a1y">>, <<>>, <<"a3x">> >>, corrupt |-> FALSE],
      [filename |-> "e.pdf", ext |-> <<".", "p", "d", "f">>,
       pages |-> << >>, corrupt |-> FALSE],
      [filename |-> "bad.pdf", ext |-> <<".", "p", "d", "f">>,
       pages |-> << <<"x1">> >>, corrupt |-> TRUE],
      [filename |-> "b.txt", ext |-> <<".", "t", "x", "t">>,
       pages |-> << <<"b1x">>, <<"b2x">> >>, corrupt |-> FALSE],
      [filename |-> "README", ext |-> << >>,
       pages |-> << <<>> >>, corrupt |-> FALSE] }

Batches == UNION { [1..n -> Uploads] : n \in 0..MaxFiles }

Questions == {"who", "what"}

\* A chunk persisted by an earlier request.
Persisted ==
    [page_content |-> "z1x",
     metadata |-> [source |-> "tmp", file_name |-> "z.txt", file_type |-> "txt",
                   page_number |-> 1, total_pages |-> 1]]

(***************************************************************************)
(* Exceptions and responses.                                               *)
(***************************************************************************)
HTTPException(status_code, detail) ==
    [type |-> "HTTPException", status_code |-> status_code, detail |-> detail]

Error(type, args) == [type |-> type, args |-> args]

\* str(e): Starlette renders an HTTPException as "<status_code>: <detail>",
\* any other exception as its message.
str(e) ==
    IF e.type = "HTTPException"
    THEN <<ToString(e.status_code), ": ">> \o e.detail
    ELSE e.args

\* The response FastAPI sends for an HTTPException leaving a handler.
ErrorResponse(e) ==
    [status_code |-> e.status_code, body |-> [detail |-> e.detail]]

NoResponse == [status_code |-> 0, body |-> [detail |-> <<>>]]

(***************************************************************************)
(* process_file, lines 77-120.                                             *)
(***************************************************************************)
LowerChar(c) ==
    CASE c = "P" -> "p" [] c = "D" -> "d" [] c = "F" -> "f" [] c = "T" -> "t"
      [] c = "X" -> "x" [] OTHER -> c

\* suffix = os.path.splitext(file.filename)[1].lower()
Suffix(file) == [i \in DOMAIN file.ext |-> LowerChar(file.ext[i])]

\* suffix[1:]
FileType(suffix) == SubSeq(suffix, 2, Len(suffix))

RECURSIVE Flatten(_)
Flatten(pages) ==
    IF pages = <<>> THEN <<>> ELSE Head(pages) \o Flatten(Tail(pages))

\* PyPDFLoader(temp_file.name).load(): one document per page, in page order.
PyPDFLoader_load(file) ==
    [i \in 1..Len(file.pages) |->
        [page_content |-> file.pages[i],
         metadata |-> [source |-> "tmp", page |-> i - 1]]]

\* TextLoader(temp_file.name).load(): the whole file as one document.
TextLoader_load(file) ==
    << [page_content |-> Flatten(file.pages), metadata |-> [source |-> "tmp"]] >>

\* dict.update: the new keys win over the old ones.
update(old, new) == new @@ old

\* A metadata loop that numbers the pages as enumerate does, from 0.
add_metadata_zero_based(docs, file) ==
    [i \in 1..Len(docs) |->
        [docs[i] EXCEPT !.metadata =
            update(@, [file_name |-> file.filename,
                       file_type |-> FileType(Suffix(file)),
                       page_number |-> i - 1,
                       total_pages |-> Len(docs)])]]

\* The metadata loop of lines 104-110: page_number is i + 1 for enumerate's
\* i, which counts from 0.
add_metadata(docs, file) ==
    [i \in 1..Len(docs) |->
        [docs[i] EXCEPT !.metadata =
            update(@, [file_name |-> file.filename,
                       file_type |-> FileType(Suffix(file)),
                       page_number |-> (i - 1) + 1,
                       total_pages |-> Len(docs)])]]

\* An except clause whose detail leaves the file's name out.
process_file_except_anonymous(file, e) ==
    HTTPException(500, <<"Error processing file: ">> \o str(e))

\* except Exception as e: raise HTTPException(500, ...), lines 118-120.
process_file_except(file, e) ==
    HTTPException(500, <<"Error processing file ", file.filename, ": ">> \o str(e))

\* The part of process_file that runs once file.read() has returned: write
\* the temporary file, load it, add the metadata, unlink, return (83-116).
\* A file the loader cannot parse makes load() raise, which skips the unlink.
\* Nothing in this part awaits, so the event loop cannot deliver the
\* cancellation of wait_for during it, however long the load takes.
process_file_load(file) ==
    IF file.corrupt
    THEN [kind |-> "raise", unlinked |-> FALSE,
          exc |-> process_file_except(file, Error("ValueError", <<"cannot parse">>))]
    ELSE [kind |-> "return", unlinked |-> TRUE,
          docs |-> add_metadata(IF Suffix(file) = <<".", "p", "d", "f">>
                                THEN PyPDFLoader_load(file)
                                ELSE TextLoader_load(file), file)]

(***************************************************************************)
(* upload_documents, lines 122-165.                                        *)
(***************************************************************************)
\* except asyncio.TimeoutError, lines 131-132.
timeout_except(e, file) ==
    IF e.type = "TimeoutError"
    THEN HTTPException(408, <<"Processing timeout for file: ", file.filename>>)
    ELSE e

\* The outer handlers without the "except HTTPException" clause.
upload_except_converts_all(e) == HTTPException(500, str(e))

\* except HTTPException: raise e / except Exception: raise 500, lines 161-165.
upload_except(e) ==
    IF e.type = "HTTPException" THEN e ELSE HTTPException(500, str(e))

\* if not documents, line 134.
no_documents_never(docs) == FALSE

no_documents(docs) == docs = <<>>

\* text_splitter.split_documents: the chunks of each document in document
\* order, each with the metadata of its document (lines 139-145).
RECURSIVE split_documents(_)
split_documents(docs) ==
    IF docs = <<>> THEN <<>>
    ELSE [j \in 1..Len(Head(docs).page_content) |->
            [page_content |-> Head(docs).page_content[j],
             metadata |-> Head(docs).metadata]]
         \o split_documents(Tail(docs))

\* The body returned on success, lines 156-160.
upload_result_counts_files(fs, sp, docs) ==
    [message |-> <<"Successfully processed ", ToString(Len(fs)), " files">>,
     chunks_created |-> Len(sp),
     total_pages |-> Len(fs)]

upload_result(fs, sp, docs) ==
    [message |-> <<"Successfully processed ", ToString(Len(fs)), " files">>,
     chunks_created |-> Len(sp),
     total_pages |-> Len(docs)]

\* POST /upload arrives: documents = [] and the loop is entered.
upload_documents(batch) ==
    /\ pc = "idle"
    /\ files' = batch
    /\ documents' = <<>>
    /\ idx' = 0
    /\ fstate' = [i \in 1..Len(batch) |-> "pending"]
    /\ before' = collection
    /\ pc' = "for"
    /\ UNCHANGED <<splits, response, pf_result, tmpdir, splitCalls, addCalls,
                   submitted, collection, globals, startup, queryVars>>

\* for file in files: wait_for(process_file(file)); process_file creates its
\* temporary file (delete=False) and suspends in await file.read().
process_file_call ==
    /\ pc = "for"
    /\ idx < Len(files)
    /\ tmpdir' = tmpdir \cup {idx + 1}
    /\ fstate' = [fstate EXCEPT ![idx + 1] = "running"]
    /\ pc' = "read"
    /\ UNCHANGED <<files, idx, documents, splits, response, pf_result,
                   splitCalls, addCalls, submitted, before, collection,
                   globals, startup, queryVars>>

\* file.read() returns and process_file runs to its end without suspending.
file_read_returns ==
    /\ pc = "read"
    /\ LET r == process_file_load(files[idx + 1]) IN
        /\ pf_result' = r
        /\ tmpdir' = IF r.unlinked THEN tmpdir \ {idx + 1} ELSE tmpdir
        /\ fstate' = [fstate EXCEPT ![idx + 1] =
                        IF r.kind = "return" THEN "returned" ELSE "raised"]
    /\ pc' = "wait_for"
    /\ UNCHANGED <<files, idx, documents, splits, response, splitCalls,
                   addCalls, submitted, before, collection, globals, startup,
                   queryVars>>

\* file.read() raises: the except clause of process_file turns it into a 500.
file_read_raises ==
    /\ pc = "read"
    /\ pf_result' = [kind |-> "raise", unlinked |-> FALSE,
                     exc |-> process_file_except(files[idx + 1],
                                 Error("OSError", <<"read failed">>))]
    /\ fstate' = [fstate EXCEPT ![idx + 1] = "raised"]
    /\ pc' = "wait_for"
    /\ UNCHANGED <<files, idx, documents, splits, response, tmpdir, splitCalls,
                   addCalls, submitted, before, collection, globals, startup,
                   queryVars>>

\* The 120 seconds pass while process_file is suspended: wait_for cancels it
\* (CancelledError is no Exception, so line 118 does not catch it) and raises
\* asyncio.TimeoutError.
wait_for_timeout ==
    /\ pc = "read"
    /\ pf_result' = [kind |-> "raise", unlinked |-> FALSE,
                     exc |-> Error("TimeoutError", <<>>)]
    /\ fstate' = [fstate EXCEPT ![idx + 1] = "cancelled"]
    /\ pc' = "wait_for"
    /\ UNCHANGED <<files, idx, documents, splits, response, tmpdir, splitCalls,
                   addCalls, submitted, before, collection, globals, startup,
                   queryVars>>

\* A loop body that stores each file's chunks as soon as the file is loaded.
loop_body_returns_adds(docs) ==
    /\ documents' = documents \o docs
    /\ idx' = idx + 1
    /\ pc' = "for"
    /\ collection' = IF vector_store = None THEN collection
                     ELSE collection \o split_documents(docs)
    /\ addCalls' = addCalls + 1
    /\ UNCHANGED <<response, submitted>>

\* docs = await ...; documents.extend(docs), lines 129-130.
loop_body_returns(docs) ==
    /\ documents' = documents \o docs
    /\ idx' = idx + 1
    /\ pc' = "for"
    /\ UNCHANGED <<response, collection, addCalls, submitted>>

\* A loop body that skips a file that failed and goes on with the next one.
loop_body_raises_continues(e) ==
    /\ idx' = idx + 1
    /\ pc' = "for"
    /\ UNCHANGED <<documents, response, collection, addCalls, submitted>>

\* The exception leaves the loop and the handler, lines 131-132 and 161-165.
loop_body_raises(e) ==
    /\ response' = ErrorResponse(upload_except(timeout_except(e, files[idx + 1])))
    /\ pc' = "done"
    /\ UNCHANGED <<documents, idx, collection, addCalls, submitted>>

\* The handler resumes from await asyncio.wait_for(...).
wait_for_resumes ==
    /\ pc = "wait_for"
    /\ IF pf_result.kind = "return"
       THEN loop_body_returns(pf_result.docs)
       ELSE loop_body_raises(pf_result.exc)
    /\ UNCHANGED <<files, splits, fstate, pf_result, tmpdir, splitCalls,
                   before, globals, startup, queryVars>>

\* The loop is over: if not documents: raise HTTPException(400), lines 134-135.
check_documents ==
    /\ pc = "for"
    /\ idx = Len(files)
    /\ IF no_documents(documents)
       THEN /\ response' = ErrorResponse(upload_except(
                   HTTPException(400, <<"No documents were successfully processed">>)))
            /\ pc' = "done"
       ELSE /\ pc' = "split"
            /\ UNCHANGED response
    /\ UNCHANGED <<files, idx, documents, splits, fstate, pf_result, tmpdir,
                   splitCalls, addCalls, submitted, before, collection,
                   globals, startup, queryVars>>

\* splits = text_splitter.split_documents(documents), line 145.
split_step ==
    /\ pc = "split"
    /\ splits' = split_documents(documents)
    /\ splitCalls' = splitCalls + 1
    /\ pc' = "add"
    /\ UNCHANGED <<files, idx, documents, response, fstate, pf_result, tmpdir,
                   addCalls, submitted, before, collection, globals, startup,
                   queryVars>>

\* vector_store.add_documents(splits) with vector_store still None: the
\* attribute lookup raises before any call is made, line 149.
add_documents_uninitialized ==
    /\ pc = "add"
    /\ vector_store = None
    /\ response' = ErrorResponse(upload_except(
           Error("AttributeError",
                 <<"'NoneType' object has no attribute 'add_documents'">>)))
    /\ pc' = "done"
    /\ UNCHANGED <<files, idx, documents, splits, fstate, pf_result, tmpdir,
                   splitCalls, addCalls, submitted, before, collection,
                   globals, startup, queryVars>>

\* vector_store.add_documents(splits) stores the chunks and the handler
\* returns its counts, lines 149-160.
add_documents_returns ==
    /\ pc = "add"
    /\ vector_store # None
    /\ addCalls' = addCalls + 1
    /\ submitted' = splits
    /\ collection' = collection \o splits
    /\ response' = [status_code |-> 200,
                    body |-> upload_result(files, splits, documents)]
    /\ pc' = "done"
    /\ UNCHANGED <<files, idx, documents, splits, fstate, pf_result, tmpdir,
                   splitCalls, before, globals, startup, queryVars>>

\* vector_store.add_documents(splits) raises (the embedding service or the
\* store fails): except Exception turns it into a 500, lines 163-165.
add_documents_raises ==
    /\ pc = "add"
    /\ vector_store # None
    /\ addCalls' = addCalls + 1
    /\ submitted' = splits
    /\ response' = ErrorResponse(upload_except(
           Error("RuntimeError", <<"embedding request failed">>)))
    /\ pc' = "done"
    /\ UNCHANGED <<files, idx, documents, splits, fstate, pf_result, tmpdir,
                   splitCalls, before, collection, globals, startup, queryVars>>

(***************************************************************************)
(* initialize_langchain, lines 42-75.                                      *)
(***************************************************************************)
\* How far the try block gets: every constructor returns, or one of them
\* raises (OpenAIEmbeddings, Chroma, or ChatOpenAI / RetrievalQA).
InitOutcomes == {"ok", "embeddings_raises", "chroma_raises", "chain_raises"}

\* An initialisation that builds the chain before the store it retrieves from.
initialize_assignments_chain_first(outcome) ==
    [embeddings |-> IF outcome = "embeddings_raises" THEN embeddings
                    ELSE "OpenAIEmbeddings",
     qa_chain |-> IF outcome \in {"embeddings_raises", "chain_raises"} THEN qa_chain
                  ELSE "RetrievalQA",
     vector_store |-> IF outcome = "ok" THEN "Chroma" ELSE vector_store]

\* The assignments of lines 47, 50 and 58 that are reached, in that order.
initialize_assignments(outcome) ==
    [embeddings |-> IF outcome = "embeddings_raises" THEN embeddings
                    ELSE "OpenAIEmbeddings",
     vector_store |-> IF outcome \in {"embeddings_raises", "chroma_raises"}
                      THEN vector_store ELSE "Chroma",
     qa_chain |-> IF outcome = "ok" THEN "RetrievalQA" ELSE qa_chain]

\* startup_event: initialize_langchain runs once, without suspending.
initialize_langchain(outcome) ==
    /\ startup = "not_run"
    /\ LET a == initialize_assignments(outcome) IN
        /\ embeddings' = a.embeddings
        /\ vector_store' = a.vector_store
        /\ qa_chain' = a.qa_chain
    /\ startup' = IF outcome = "ok" THEN "ok" ELSE "failed"
    /\ UNCHANGED <<collection, uploadVars, queryVars>>

(***************************************************************************)
(* query, lines 167-199.                                                   *)
(***************************************************************************)
\* A readiness check that lets every request through.
not_initialized_never(chain) == FALSE

\* if not qa_chain, line 170.
not_initialized(chain) == chain = None

\* except Exception as e: raise HTTPException(500, str(e)), lines 197-199.
query_except(e) == HTTPException(500, str(e))

\* The instruction template of lines 176-177.
enhanced_question(question) ==
    <<"Based on the provided document content, ", question,
      " If the answer is not directly found in the documents, please say so instead of making up information.">>

\* The retriever hands the chain at most k chunks of the collection.
retrieve(chunks) ==
    SubSeq(chunks, 1, IF Len(chunks) < K THEN Len(chunks) ELSE K)

\* sources, lines 182-188.
source_info(docs) ==
    [i \in 1..Len(docs) |->
        [content |-> docs[i].page_content, metadata |-> docs[i].metadata]]

\* The readiness check fails: the HTTPException of line 171 is caught by the
\* except Exception of line 197 and raised again as a 500 with str(e).
query_not_initialized(question) ==
    /\ not_initialized(qa_chain)
    /\ q_chain' = qa_chain
    /\ qa_input' = None
    /\ q_response' = ErrorResponse(query_except(
           HTTPException(500, <<"System not initialized">>)))
    /\ UNCHANGED <<globals, startup, collection, uploadVars>>

\* qa_chain({"query": enhanced_question}) returns, lines 179-196.
query_returns(question) ==
    /\ ~not_initialized(qa_chain)
    /\ qa_chain # None
    /\ q_chain' = qa_chain
    /\ qa_input' = enhanced_question(question)
    /\ q_response' = [status_code |-> 200,
                      body |-> [answer |-> <<"answer to ", question>>,
                                sources |-> source_info(retrieve(collection))]]
    /\ UNCHANGED <<globals, startup, collection, uploadVars>>

\* qa_chain({"query": enhanced_question}) raises (the retriever or the
\* language model fails, or qa_chain is not callable), lines 179 and 197-199.
query_raises(question) ==
    /\ ~not_initialized(qa_chain)
    /\ q_chain' = qa_chain
    /\ qa_input' = enhanced_question(question)
    /\ q_response' = ErrorResponse(query_except(
           IF qa_chain = None
           THEN Error("TypeError", <<"'NoneType' object is not callable">>)
           ELSE Error("RuntimeError", <<"completion request failed">>)))
    /\ UNCHANGED <<globals, startup, collection, uploadVars>>

(***************************************************************************)
(* The system.                                                             *)
(***************************************************************************)
Init ==
    /\ embeddings = None
    /\ vector_store = None
    /\ qa_chain = None
    /\ startup = "not_run"
    /\ collection \in {<<>>, <<Persisted>>}
    /\ pc = "idle"
    /\ files = <<>>
    /\ idx = 0
    /\ documents = <<>>
    /\ splits = <<>>
    /\ response = NoResponse
    /\ fstate = <<>>
    /\ pf_result = [kind |-> "none", unlinked |-> FALSE]
    /\ tmpdir = {}
    /\ splitCalls = 0
    /\ addCalls = 0
    /\ submitted = <<>>
    /\ before = collection
    /\ q_response = NoResponse
    /\ q_chain = None
    /\ qa_input = None

Next ==
    \/ \E outcome \in InitOutcomes : initialize_langchain(outcome)
    \/ \E batch \in Batches : upload_documents(batch)
    \/ process_file_call
    \/ file_read_returns
    \/ file_read_raises
    \/ wait_for_timeout
    \/ wait_for_resumes
    \/ check_documents
    \/ split_step
    \/ add_documents_uninitialized
    \/ add_documents_returns
    \/ add_documents_raises
    \/ \E question \in Questions : query_not_initialized(question)
    \/ \E question \in Questions : query_returns(question)
    \/ \E question \in Questions : query_raises(question)

Spec == Init /\ [][Next]_vars

(***************************************************************************)
(* Properties.                                                             *)
(***************************************************************************)
Files == DOMAIN fstate

Contains(seq, x) == \E i \in DOMAIN seq : seq[i] = x

\* The documents process_file returns for a file; none when it raises.
FileDocuments(file) ==
    LET r == process_file_load(file)
    IN  IF r.kind = "return" THEN r.docs ELSE <<>>

\* The number of documents process_file loads from a file.
PageCount(file) == Len(FileDocuments(file))

RECURSIVE TotalPages(_)
TotalPages(fs) ==
    IF fs = <<>> THEN 0 ELSE PageCount(Head(fs)) + TotalPages(Tail(fs))

\* The documents of the first n files, file by file, each in loader order.
RECURSIVE LoadedDocuments(_)
LoadedDocuments(n) ==
    IF n = 0 THEN <<>>
    ELSE LoadedDocuments(n - 1) \o FileDocuments(files[n])

IsPrefix(p, seq) == Len(p) <= Len(seq) /\ SubSeq(seq, 1, Len(p)) = p

\* The process_file call of file k ended by raising its HTTPException.
FileFailed == \E k \in Files : fstate[k] = "raised"

C2_TempFileRemoved ==
    \A k \in Files :
        fstate[k] \in {"returned", "raised", "cancelled"} => k \notin tmpdir

\* C3: an upload whose loop ended with no documents answers 400 without
\* calling the splitter or add_documents; the splitting and adding steps are
\* never reached with an empty documents list.
C3_NoDocumentsYields400 ==
    /\ (pc = "done" /\ idx = Len(files) /\ documents = <<>>) =>
            /\ response.status_code = 400
            /\ response.body.detail = <<"No documents were successfully processed">>
            /\ splitCalls = 0
            /\ addCalls = 0
            /\ collection = before
    /\ (pc \in {"split", "add"} => documents # <<>>)

C3_Witness ==
    /\ pc = "done"
    /\ Len(files) = 2
    /\ idx = 2
    /\ documents = <<>>
    /\ response.status_code = 400

\* C4: a query that read qa_chain as None answers 500 with a detail holding
\* "System not initialized", and passed nothing to the chain.
C4_QueryNotInitialized ==
    (q_response.status_code # 0 /\ q_chain = None) =>
        /\ q_response.status_code = 500
        /\ Contains(q_response.body.detail, "System not initialized")
        /\ qa_input = None

C4_Witness ==
    /\ q_response.status_code = 500
    /\ q_chain = None
    /\ startup = "failed"
    /\ vector_store # None

\* C5: when the load of file k raises, process_file raises a 500 whose
\* detail starts "Error processing file <name of file k>: ", the request
\* answers with that status and detail unchanged, and no later file of the
\* batch is processed.
C5_LoadFailurePropagates ==
    \A k \in Files : fstate[k] = "raised" =>
        /\ pf_result.kind = "raise"
        /\ pf_result.exc.type = "HTTPException"
        /\ pf_result.exc.status_code = 500
        /\ IsPrefix(<<"Error processing file ", files[k].filename, ": ">>,
                    pf_result.exc.detail)
        /\ pc \in {"wait_for", "done"}
        /\ \A j \in Files : j > k => fstate[j] = "pending"
        /\ pc = "done" =>
            /\ response.status_code = pf_result.exc.status_code
            /\ response.body.detail = pf_result.exc.detail

C5_Witness ==
    /\ pc = "done"
    /\ Len(files) = 2
    /\ fstate[1] = "raised"
    /\ files[1].corrupt
    /\ response.status_code = 500

\* C6: a 200 response reports chunks_created = the number of chunks passed
\* to add_documents (by which the collection grew) and total_pages = the sum
\* over the files of the batch of the documents loaded from each.
C6_ReportedCounts ==
    (pc = "done" /\ response.status_code = 200) =>
        /\ response.body.chunks_created = Len(submitted)
        /\ collection = before \o submitted
        /\ response.body.total_pages = TotalPages(files)

C6_Witness ==
    /\ pc = "done"
    /\ response.status_code = 200
    /\ Len(files) = 2
    /\ response.body.total_pages = 4
    /\ response.body.chunks_created = 5

\* The chunk comes from a document of the request and has its metadata.
ChunkKeepsMetadata(chunk) ==
    /\ \E d \in DOMAIN documents :
           Contains(documents[d].page_content, chunk.page_content)
    /\ \A d \in DOMAIN documents :
           Contains(documents[d].page_content, chunk.page_content)
               => chunk.metadata = documents[d].metadata

\* C7: the i-th of the n documents loaded from a file has page_number i,
\* total_pages n and the file's name, for every loaded file of the batch, and
\* every chunk (split or submitted) has the metadata of the document that
\* holds its text.
C7_PageMetadata ==
    /\ \A k \in 1..idx :
        LET n == PageCount(files[k])
            off == TotalPages(SubSeq(files, 1, k - 1))
        IN  \A i \in 1..n :
                /\ documents[off + i].metadata.page_number = i
                /\ documents[off + i].metadata.total_pages = n
                /\ documents[off + i].metadata.file_name = files[k].filename
    /\ \A c \in DOMAIN splits : ChunkKeepsMetadata(splits[c])
    /\ \A c \in DOMAIN submitted : ChunkKeepsMetadata(submitted[c])

C7_Witness ==
    /\ pc = "done"
    /\ response.status_code = 200
    /\ Len(files) = 2
    /\ files[1].filename = "b.txt"
    /\ files[2].filename = "a.PDF"
    /\ Len(submitted) = 5
    /\ submitted[5].metadata.page_number = 3

\* C8: add_documents is called at most once per upload and only when every
\* file has been loaded; an upload that ends with 400, 408 or the 500 of a
\* file that failed made no add call and left the collection as it was.
C8_NoPartialPersistence ==
    /\ addCalls <= 1
    /\ addCalls = 1 =>
        /\ idx = Len(files)
        /\ \A k \in Files : fstate[k] = "returned"
    /\ (pc = "done" /\ (response.status_code \in {400, 408} \/ FileFailed)) =>
        /\ addCalls = 0
        /\ collection = before

C8_Witness ==
    /\ pc = "done"
    /\ Len(files) = 2
    /\ fstate[1] = "returned"
    /\ fstate[2] = "raised"
    /\ documents # <<>>
    /\ before # <<>>
    /\ vector_store # None

\* C9: at most one file is in process_file at a time and it is the one after
\* the idx files completed; a file has been started only if every earlier
\* file returned; documents holds the documents of the completed files in
\* file order then page order; no temporary file exists for a later file.
C9_SequentialInOrder ==
    /\ Cardinality({k \in Files : fstate[k] = "running"}) <= 1
    /\ \A k \in Files : fstate[k] = "running" => k = idx + 1 /\ pc = "read"
    /\ \A k \in Files : fstate[k] # "pending" =>
            \A j \in Files : j < k => fstate[j] = "returned"
    /\ documents = LoadedDocuments(idx)
    /\ \A k \in tmpdir : k <= idx + 1

C9_Witness ==
    /\ pc = "done"
    /\ Len(files) = 2
    /\ fstate[1] = "cancelled"
    /\ fstate[2] = "pending"

\* The handles as the readiness check of query needs them.
HandlesConsistent ==
    /\ qa_chain # None => (vector_store # None /\ embeddings # None)
    /\ (q_chain # None /\ qa_input # None) => vector_store # None

\* C10: qa_chain set implies vector_store and embeddings set, in every
\* state; a query that passed something to the chain finds the store set;
\* and the three handles change only in the step that runs
\* initialize_langchain.
C10_HandlesSetByInitOnly ==
    /\ []HandlesConsistent
    /\ [][globals' # globals => (startup = "not_run" /\ startup' # "not_run")]_vars

C10_Witness ==
    /\ startup = "ok"
    /\ q_chain # None
    /\ qa_input # None
    /\ q_response.status_code = 200
    /\ pc = "done"

====
